---- MODULE Spec2Model ----
(***************************************************************************)
(* Model of paasta_tools/kubernetes/bin/cleanup_nodes.py: one run of main  *)
(* (list nodes, filter by readiness, delete the filtered nodes, report)    *)
(* against a cluster whose nodes' Ready status may change during the run.  *)
(*                                                                         *)
(* Assumptions: KubeClient() and get_all_nodes() (not in this file) return *)
(* normally, get_all_nodes returns the cluster's nodes as they are at the  *)
(* time of the call, every node has a list of conditions with distinct     *)
(* types, and a condition's status is one of the strings 'True', 'False',  *)
(* 'Unknown'.  Node names are modelled by the integers 1..n.               *)
(***************************************************************************)
EXTENDS Integers, Sequences, FiniteSets, TLC

\* ----- bounds ------------------------------------------------------------
MaxNodes == 2      \* at most this many nodes in the cluster
MaxChanges == 1    \* at most this many status changes by the cluster in a run

\* ----- data --------------------------------------------------------------
Statuses == {"True", "False", "Unknown"}

ReadyConditions == [type : {"Ready"}, status : Statuses]

OtherCondition == [type |-> "MemoryPressure", status |-> "False"]

\* the condition lists a node may carry (V1Node.status.conditions)
NodeConditions ==
    {<<>>, <<OtherCondition>>}
        \cup {<<r>> : r \in ReadyConditions}
        \cup {<<r, OtherCondition>> : r \in ReadyConditions}
        \cup {<<OtherCondition, r>> : r \in ReadyConditions}

\* a V1Node: metadata.name and status.conditions
V1Node(name, conditions) == [name |-> name, conditions |-> conditions]

\* Python values returned by is_node_ready: a bool or a str
PyBool(b) == <<"bool", b>>
PyStr(s) == <<"str", s>>

\* Python truth value: a str is true iff it is not empty
Truthy(v) == IF v[1] = "bool" THEN v[2] ELSE v[2] /= ""

\* numeric values of the logging levels
LevelNo == [DEBUG |-> 10, INFO |-> 20, WARNING |-> 30, ERROR |-> 40]

VARIABLES
    verbose,        \* args.verbose
    dry_run,        \* args.dry_run
    cluster,        \* the cluster: the sequence of V1Node it holds now
    changes,        \* number of status changes the cluster has made
    pc,             \* position of main
    all_nodes,      \* main: result of get_all_nodes
    filtered_nodes, \* main: result of nodes_for_cleanup
    nodes,          \* terminate_nodes: its argument (a list of names)
    i,              \* terminate_nodes: position of the for loop (1-based)
    t_success,      \* terminate_nodes: local success
    t_errors,       \* terminate_nodes: local errors
    success,        \* main: success
    errors,         \* main: errors
    calls,          \* delete_node requests received by the cluster
    output,         \* log records emitted by the root handler
    exit_status,    \* process exit status (-1 while running)
    raised          \* what ended main: "none", "SystemExit" or "Exception"

vars == <<verbose, dry_run, cluster, changes, pc, all_nodes, filtered_nodes,
          nodes, i, t_success, t_errors, success, errors, calls, output,
          exit_status, raised>>

\* ----- helpers -----------------------------------------------------------
\* logging.basicConfig(level=...) in main
LogLevel(v) == IF v THEN "DEBUG" ELSE "WARNING"

\* log.<level>(msg): the record is emitted iff its level reaches the threshold
Emit(out, v, level, msg, names) ==
    IF LevelNo[level] >= LevelNo[LogLevel(v)]
    THEN Append(out, [level |-> level, msg |-> msg, names |-> names])
    ELSE out

\* [node.metadata.name for node in ns]
RECURSIVE Names(_)
Names(ns) == IF ns = <<>> THEN <<>> ELSE <<Head(ns).name>> \o Names(Tail(ns))

\* index of the first condition of type 'Ready', 0 if there is none
RECURSIVE FirstReadyFrom(_, _)
FirstReadyFrom(conds, j) ==
    IF j > Len(conds) THEN 0
    ELSE IF conds[j].type = "Ready" THEN j
    ELSE FirstReadyFrom(conds, j + 1)

HasReadyCondition(node) == FirstReadyFrom(node.conditions, 1) /= 0

\* the status of the node's Ready condition ("" if it has none)
ReadyStatus(node) ==
    LET j == FirstReadyFrom(node.conditions, 1)
    IN  IF j = 0 THEN "" ELSE node.conditions[j].status

\* value returned when no condition of type 'Ready' is found
NoReadyConditionResultFalse == PyBool(FALSE)

NoReadyConditionResult == PyBool(TRUE)

is_node_ready(node) ==
    LET j == FirstReadyFrom(node.conditions, 1)
    IN  IF j = 0 THEN NoReadyConditionResult
        ELSE IF node.conditions[j].status = "Unknown" THEN PyBool(FALSE)
        ELSE PyStr(node.conditions[j].status)

\* log.error of is_node_ready, for the nodes of ns in order
RECURSIVE is_node_ready_log(_, _, _)
is_node_ready_log(out, v, ns) ==
    IF ns = <<>> THEN out
    ELSE is_node_ready_log(
            IF HasReadyCondition(Head(ns)) THEN out
            ELSE Emit(out, v, "ERROR", "no KubeletReady condition found",
                      <<Head(ns).name>>),
            v, Tail(ns))

\* the filter of nodes_for_cleanup: not is_node_ready(node)
SelectedAll(node) == TRUE

Selected(node) == ~Truthy(is_node_ready(node))

RECURSIVE nodes_for_cleanup(_)
nodes_for_cleanup(ns) ==
    IF ns = <<>> THEN <<>>
    ELSE (IF Selected(Head(ns)) THEN <<Head(ns)>> ELSE <<>>)
            \o nodes_for_cleanup(Tail(ns))

\* ----- initial state -----------------------------------------------------
Init ==
    /\ verbose \in BOOLEAN
    /\ dry_run \in BOOLEAN
    /\ \E n \in 0..MaxNodes :
         \E f \in [1..n -> NodeConditions] :
            cluster = [k \in 1..n |-> V1Node(k, f[k])]
    /\ changes = 0
    /\ pc = "list"
    /\ all_nodes = <<>>
    /\ filtered_nodes = <<>>
    /\ nodes = <<>>
    /\ i = 0
    /\ t_success = <<>>
    /\ t_errors = <<>>
    /\ success = <<>>
    /\ errors = <<>>
    /\ calls = <<>>
    /\ output = <<>>
    /\ exit_status = -1
    /\ raised = "none"

\* ----- the cluster ------------------------------------------------------
\* the nodes of the cluster, as get_all_nodes returns them
get_all_nodes == cluster

\* the cluster's current Ready status of the node called name
\* ("" if it has no Ready condition, "gone" if the node is no longer there)
ClusterStatus(name) ==
    IF \E k \in DOMAIN cluster : cluster[k].name = name
    THEN ReadyStatus(cluster[CHOOSE k \in DOMAIN cluster : cluster[k].name = name])
    ELSE "gone"

SetReady(conds, s) ==
    [j \in DOMAIN conds |->
        IF conds[j].type = "Ready" THEN [conds[j] EXCEPT !.status = s]
        ELSE conds[j]]

\* the kubelet or the node controller changes a node's Ready status
NodeStatusChange ==
    /\ pc /= "exit"
    /\ changes < MaxChanges
    /\ \E k \in DOMAIN cluster, s \in Statuses :
        /\ HasReadyCondition(cluster[k])
        /\ ReadyStatus(cluster[k]) /= s
        /\ cluster' = [cluster EXCEPT ![k].conditions = SetReady(@, s)]
    /\ changes' = changes + 1
    /\ UNCHANGED <<verbose, dry_run, pc, all_nodes, filtered_nodes, nodes, i,
                   t_success, t_errors, success, errors, calls, output,
                   exit_status, raised>>

\* ----- main --------------------------------------------------------------
\* all_nodes = get_all_nodes(kube_client); log.debug(found nodes ...)
ListNodes ==
    /\ pc = "list"
    /\ all_nodes' = get_all_nodes
    /\ output' = Emit(output, verbose, "DEBUG", "found nodes in cluster",
                      Names(get_all_nodes))
    /\ pc' = "filter"
    /\ UNCHANGED <<verbose, dry_run, cluster, changes, filtered_nodes, nodes, i,
                   t_success, t_errors, success, errors, calls, exit_status,
                   raised>>

\* filtered_nodes = nodes_for_cleanup(all_nodes); log.debug(nodes to be deleted ...)
FilterNodes ==
    /\ pc = "filter"
    /\ filtered_nodes' = nodes_for_cleanup(all_nodes)
    /\ output' = Emit(is_node_ready_log(output, verbose, all_nodes), verbose,
                      "DEBUG", "nodes to be deleted",
                      Names(nodes_for_cleanup(all_nodes)))
    /\ pc' = "branch"
    /\ UNCHANGED <<verbose, dry_run, cluster, changes, all_nodes, nodes, i,
                   t_success, t_errors, success, errors, calls, exit_status,
                   raised>>

\* if not dry_run:
ShouldTerminateAlways(d) == TRUE

ShouldTerminate(d) == ~d

\* the call terminate_nodes(kube_client, [names of filtered_nodes])
CallTerminateNodes ==
    /\ pc = "branch"
    /\ ShouldTerminate(dry_run)
    /\ nodes' = Names(filtered_nodes)
    /\ i' = 1
    /\ t_success' = <<>>
    /\ t_errors' = <<>>
    /\ pc' = "terminate"
    /\ UNCHANGED <<verbose, dry_run, cluster, changes, all_nodes, filtered_nodes,
                   success, errors, calls, output, exit_status, raised>>

\* else: success, errors = [], []; log.info(dry run mode detected ...)
DryRun ==
    /\ pc = "branch"
    /\ ~ShouldTerminate(dry_run)
    /\ success' = <<>>
    /\ errors' = <<>>
    /\ output' = Emit(output, verbose, "INFO", "dry run mode detected", <<>>)
    /\ pc' = "report"
    /\ UNCHANGED <<verbose, dry_run, cluster, changes, all_nodes, filtered_nodes,
                   nodes, i, t_success, t_errors, calls, exit_status, raised>>

\* ----- terminate_nodes ---------------------------------------------------
\* the exceptions delete_node may raise
Exceptions == {"ApiException", "OtherException"}

\* except ApiException as e:
CaughtAny(exc) == TRUE

Caught(exc) == exc = "ApiException"

\* continue: the loop goes on with the next node
AfterErrorRetry(idx) == idx

AfterErrorBreak(idx) == Len(nodes) + 1

AfterError(idx) == idx + 1

\* the request as the cluster receives it
Request(name, outcome) ==
    [node |-> name, outcome |-> outcome, status |-> ClusterStatus(name)]

\* delete_node returns: the cluster removes the node; success.append(node)
DeleteReturns ==
    /\ pc = "terminate"
    /\ i <= Len(nodes)
    /\ calls' = Append(calls, Request(nodes[i], "ok"))
    /\ cluster' = SelectSeq(cluster, LAMBDA n : n.name /= nodes[i])
    /\ t_success' = Append(t_success, nodes[i])
    /\ i' = i + 1
    /\ UNCHANGED <<verbose, dry_run, changes, pc, all_nodes, filtered_nodes,
                   nodes, t_errors, success, errors, output, exit_status,
                   raised>>

\* delete_node raises exc: collected if caught, else it leaves main uncaught
DeleteRaises(exc) ==
    /\ pc = "terminate"
    /\ i <= Len(nodes)
    /\ calls' = Append(calls, Request(nodes[i], exc))
    /\ IF Caught(exc)
       THEN /\ t_errors' = Append(t_errors, <<nodes[i], exc>>)
            /\ i' = AfterError(i)
            /\ UNCHANGED <<pc, t_success, exit_status, raised>>
       ELSE /\ pc' = "exit"
            /\ raised' = exc
            /\ exit_status' = 1
            /\ i' = 0
            /\ t_success' = <<>>
            /\ t_errors' = <<>>
    /\ UNCHANGED <<verbose, dry_run, cluster, changes, all_nodes, filtered_nodes,
                   nodes, success, errors, output>>

\* return (success, errors), assigned by main
TerminateReturns ==
    /\ pc = "terminate"
    /\ i > Len(nodes)
    /\ success' = t_success
    /\ errors' = t_errors
    /\ pc' = "report"
    /\ UNCHANGED <<verbose, dry_run, cluster, changes, all_nodes, filtered_nodes,
                   nodes, i, t_success, t_errors, calls, output, exit_status,
                   raised>>

\* ----- main, the report --------------------------------------------------
\* for node_name in success: log.info(successfully deleted node ...)
RECURSIVE LogSuccess(_, _, _)
LogSuccess(out, v, succ) ==
    IF succ = <<>> THEN out
    ELSE LogSuccess(Emit(out, v, "INFO", "successfully deleted node",
                         <<Head(succ)>>), v, Tail(succ))

\* for node_name, exception in errors: log.error(error deleting node ...)
RECURSIVE LogErrors(_, _, _)
LogErrors(out, v, errs) ==
    IF errs = <<>> THEN out
    ELSE LogErrors(Emit(out, v, "ERROR", "error deleting node",
                        <<Head(errs)[1]>>), v, Tail(errs))

\* if errors: sys.exit(1)
ExitCodeUnlessSuccess(succ, errs) == IF errs /= <<>> /\ succ = <<>> THEN 1 ELSE 0

ExitCode(succ, errs) == IF errs /= <<>> THEN 1 ELSE 0

Report ==
    /\ pc = "report"
    /\ output' = LogErrors(LogSuccess(output, verbose, success), verbose, errors)
    /\ exit_status' = ExitCode(success, errors)
    /\ raised' = IF ExitCode(success, errors) /= 0 THEN "SystemExit" ELSE "none"
    /\ pc' = "exit"
    /\ UNCHANGED <<verbose, dry_run, cluster, changes, all_nodes, filtered_nodes,
                   nodes, i, t_success, t_errors, success, errors, calls>>

\* ----- specification -----------------------------------------------------
main ==
    \/ ListNodes
    \/ FilterNodes
    \/ CallTerminateNodes
    \/ DryRun
    \/ DeleteReturns
    \/ \E exc \in Exceptions : DeleteRaises(exc)
    \/ TerminateReturns
    \/ Report

Next == main \/ NodeStatusChange

Spec == Init /\ [][Next]_vars

\* the interpreter keeps running main until it ends
FairSpec == Spec /\ WF_vars(main)

TypeOK ==
    /\ verbose \in BOOLEAN /\ dry_run \in BOOLEAN
    /\ pc \in {"list", "filter", "branch", "terminate", "report", "exit"}
    /\ exit_status \in {-1, 0, 1}
    /\ raised \in {"none", "SystemExit"} \cup Exceptions
    /\ changes \in 0..MaxChanges
    /\ i \in 0..(Len(nodes) + 1)

\* ----- properties --------------------------------------------------------
NotReadyStatuses == {"False", "Unknown"}

\* the names of the nodes delete_node was called for
Called == {calls[j].node : j \in DOMAIN calls}

\* main returned or called sys.exit: no exception other than SystemExit
EndedNormally == pc = "exit" /\ raised /= "OtherException"

\* the names occurring in the emitted output
Reported ==
    UNION {{output[k].names[j] : j \in DOMAIN output[k].names} : k \in DOMAIN output}

\* the nodes of a call log, in order
RECURSIVE CallNodes(_)
CallNodes(cs) == IF cs = <<>> THEN <<>> ELSE <<Head(cs).node>> \o CallNodes(Tail(cs))

\* the (node, exception) pairs of a call log, in order
RECURSIVE CallPairs(_)
CallPairs(cs) ==
    IF cs = <<>> THEN <<>>
    ELSE <<(<<Head(cs).node, Head(cs).outcome>>)>> \o CallPairs(Tail(cs))

NoDuplicates(seq) == \A a, b \in DOMAIN seq : seq[a] = seq[b] => a = b

\* C1: in a run without --dry-run that ends normally, a delete request was
\* issued for every listed node whose Ready condition has status 'False' or
\* 'Unknown'.
C1_NotReadyDeleted ==
    (EndedNormally /\ ~dry_run) =>
        \A k \in DOMAIN all_nodes :
            ReadyStatus(all_nodes[k]) \in NotReadyStatuses
                => all_nodes[k].name \in Called

\* C2: in a run with --dry-run no delete request is ever issued and the
\* cluster loses no node, and the run exits with status zero.
C2_DryRunNoDelete ==
    dry_run =>
        /\ calls = <<>>
        /\ pc \in {"filter", "branch", "report", "exit"} =>
                Len(cluster) = Len(all_nodes)
        /\ pc = "exit" => exit_status = 0 /\ raised = "none"

C2_Witness ==
    /\ dry_run /\ pc = "exit"
    /\ \E k \in DOMAIN all_nodes : ReadyStatus(all_nodes[k]) = "Unknown"
    /\ \E k \in DOMAIN all_nodes : ReadyStatus(all_nodes[k]) = "True"

\* C3: a run in which at least one delete call failed exits with a non-zero
\* status, whatever the other deletions did and wherever the failure was.
C3_FailureExitsNonZero ==
    (pc = "exit" /\ \E j \in DOMAIN calls : calls[j].outcome /= "ok")
        => exit_status /= 0

C3_Witness ==
    /\ pc = "exit"
    /\ Len(calls) = 2
    /\ calls[1].outcome = "ok"
    /\ calls[2].outcome = "ApiException"

\* C4: no delete request is ever issued for a node whose Ready condition had
\* status 'True' in the listing, in dry-run or not, whatever the other
\* deletions did.
C4_ReadyNeverDeleted ==
    \A k \in DOMAIN all_nodes :
        ReadyStatus(all_nodes[k]) = "True" => all_nodes[k].name \notin Called

C4_Witness ==
    /\ pc = "exit"
    /\ calls /= <<>>
    /\ \E k \in DOMAIN all_nodes : ReadyStatus(all_nodes[k]) = "True"

\* C5: a run with --dry-run has, when it ends, emitted the name of every
\* listed node that is not ready, whatever the verbose flag.
C5_DryRunReports ==
    (dry_run /\ pc = "exit") =>
        \A k \in DOMAIN all_nodes :
            ReadyStatus(all_nodes[k]) \in NotReadyStatuses
                => all_nodes[k].name \in Reported

\* the order of the steps of main
Rank(p) ==
    CASE p = "list" -> 1
      [] p = "filter" -> 2
      [] p = "branch" -> 3
      [] p = "terminate" -> 4
      [] p = "report" -> 5
      [] p = "exit" -> 6

\* what the program itself reads and writes (everything but the cluster)
progvars == <<verbose, dry_run, pc, all_nodes, filtered_nodes, nodes, i,
              t_success, t_errors, success, errors, calls, output,
              exit_status, raised>>

\* a step never goes back: it moves main to a later position, or visits the
\* next node of the loop with one delete request, or is the cluster's own;
\* the listing and the filtered list are each assigned in one step only
SinglePass ==
    /\ \/ Rank(pc') > Rank(pc)
       \/ /\ pc = "terminate" /\ pc' = "terminate"
          /\ i <= Len(nodes) /\ i' = i + 1
          /\ Len(calls') = Len(calls) + 1
          /\ calls'[Len(calls')].node = nodes[i]
       \/ UNCHANGED progvars
    /\ all_nodes' /= all_nodes => pc = "list"
    /\ filtered_nodes' /= filtered_nodes => pc = "filter"
    /\ Len(calls') > Len(calls) => pc = "terminate"

\* C6: every run reaches its end, and it does so in a single pass: no step
\* returns to an earlier position, the nodes are listed once and filtered
\* once, and each step of the deletion loop visits the next node.
C6_TerminatesInOnePass == <>(pc = "exit") /\ [][SinglePass]_vars

C6_Witness ==
    /\ pc = "exit"
    /\ Len(calls) = 2
    /\ calls[1].outcome = "ApiException"
    /\ calls[2].outcome = "ok"
    /\ changes > 0

\* C7: while terminate_nodes runs it has called delete_node once for each of
\* the first i-1 input nodes, in input order; on return it has done so for
\* every input node, success holds exactly the nodes whose call returned and
\* errors exactly the nodes whose call raised ApiException, each with its
\* exception, both in input order.
C7_TerminateNodes ==
    /\ pc = "terminate" =>
        /\ CallNodes(calls) = SubSeq(nodes, 1, i - 1)
        /\ Len(t_success) + Len(t_errors) = i - 1
    /\ (pc = "report" /\ ~dry_run) =>
        /\ CallNodes(calls) = nodes
        /\ NoDuplicates(nodes)
        /\ success = CallNodes(SelectSeq(calls, LAMBDA c : c.outcome = "ok"))
        /\ errors = CallPairs(SelectSeq(calls, LAMBDA c : c.outcome = "ApiException"))
        /\ Len(success) + Len(errors) = Len(nodes)

C7_Witness ==
    /\ pc = "report"
    /\ Len(nodes) = 2
    /\ errors = <<(<<nodes[1], "ApiException">>)>>
    /\ success = <<nodes[2]>>

\* C8: a listed node without a condition of type 'Ready' is never selected by
\* nodes_for_cleanup and never gets a delete request; once the filter has run
\* an error naming it has been logged.
C8_NoReadyConditionKept ==
    \A k \in DOMAIN all_nodes :
        ~HasReadyCondition(all_nodes[k]) =>
            /\ all_nodes[k].name \notin Called
            /\ \A j \in DOMAIN filtered_nodes :
                    filtered_nodes[j].name /= all_nodes[k].name
            /\ Rank(pc) > 2 =>
                \E m \in DOMAIN output :
                    /\ output[m].level = "ERROR"
                    /\ output[m].msg = "no KubeletReady condition found"
                    /\ output[m].names = <<all_nodes[k].name>>

C8_Witness ==
    /\ pc = "exit" /\ ~dry_run
    /\ calls /= <<>>
    /\ \E k \in DOMAIN all_nodes : ~HasReadyCondition(all_nodes[k])

\* C9: in a run without --dry-run that ends normally, a listed node got a
\* delete request iff it was not ready (status 'False' or 'Unknown') in the
\* listing, whatever its status in the cluster became afterwards.
C9_ListingDecides ==
    (EndedNormally /\ ~dry_run) =>
        \A k \in DOMAIN all_nodes :
            (ReadyStatus(all_nodes[k]) \in NotReadyStatuses)
                <=> (all_nodes[k].name \in Called)

\* C10: a delete call that raises anything other than ApiException ends the
\* run at once and abnormally: it is the last request of the run, the nodes
\* requested are a prefix of the filtered nodes, the exception is in no
\* errors list, and no per-node success or error line has been emitted.
C10_OtherExceptionAborts ==
    /\ \A j \in DOMAIN errors : errors[j][2] = "ApiException"
    /\ \A j \in DOMAIN t_errors : t_errors[j][2] = "ApiException"
    /\ \A j \in DOMAIN calls :
        calls[j].outcome = "OtherException" =>
            /\ j = Len(calls)
            /\ pc = "exit" /\ raised = "OtherException" /\ exit_status /= 0
            /\ CallNodes(calls) = SubSeq(Names(filtered_nodes), 1, j)
            /\ success = <<>> /\ errors = <<>>
            /\ \A m \in DOMAIN output :
                output[m].msg \notin
                    {"successfully deleted node", "error deleting node"}

C10_Witness ==
    /\ raised = "OtherException"
    /\ verbose
    /\ Len(calls) = 2
    /\ calls[1].outcome = "ok"

====
